---- MODULE Spec2Model ----
(***************************************************************************)
(* Model of generate_pdf_cv.py: load_data, generate_html (the Jinja2       *)
(* TEMPLATE), write_pdf and the orchestrator main().                       *)
(*                                                                         *)
(* A Python dict is a TLA+ record whose DOMAIN is the set of keys that are *)
(* present; an absent key is a key outside the DOMAIN.  A Python list is a *)
(* sequence.  The markup string is a sequence of tokens, one per template  *)
(* element that carries data, in template order.                           *)
(***************************************************************************)
EXTENDS Integers, Sequences, FiniteSets, TLC

VARIABLES
    entry,      \* the function that was called: "main", "generate_html", "write_pdf"
    pc,         \* position inside the call
    input_file, \* what is on disk at resume_data.yaml
    environ,    \* os.environ, the keys that matter
    data,       \* the record tree (local `data` of main / argument of generate_html)
    loaded,     \* the tree as load_data returned it (history, for the frame claims)
    calls,      \* the calls made to fetch_github_projects, in order
    html,       \* the markup string (local `html` of main / argument of write_pdf)
    out_path,   \* write_pdf's out_path, a sequence of path components
    dirs,       \* the directories that exist
    file,       \* what is at out_path
    file0,      \* what was at out_path when the call started (history)
    err,        \* the exception that left the called function, "" if none
    trace,      \* the steps that have started, in order (history)
    reported    \* whether line 148 has printed the success message

vars == <<entry, pc, input_file, environ, data, loaded, calls, html, out_path,
          dirs, file, file0, err, trace, reported>>

-----------------------------------------------------------------------------
(* Bounds of the model *)

\* lists are drawn with every length from 0 to limit + Extra
Extra == 1

\* program constants: the slice limits of TEMPLATE
MaxResponsibilities == 6
MaxTechnologies == 10
MaxProjects == 4
MaxTopics == 5

-----------------------------------------------------------------------------
(* Python / Jinja2 value helpers *)

None == [none |-> TRUE]
IsNone(x) == "none" \in DOMAIN x
EmptyDict == <<>>

Has(d, k) == k \in DOMAIN d

Min(a, b) == IF a < b THEN a ELSE b

\* Jinja2 attribute lookup of a string-valued field: an Undefined renders as ""
Str(d, k) == IF Has(d, k) THEN d[k] ELSE ""

\* Jinja2 attribute lookup of a list-valued field: an Undefined is falsy and
\* iterates as the empty sequence
Lst(d, k) == IF Has(d, k) THEN d[k] ELSE <<>>

\* truthiness of a list
Truthy(s) == Len(s) > 0

\* s[:n]
Slice(s, n) == SubSeq(s, 1, Min(n, Len(s)))

\* the join filter
RECURSIVE Join(_, _)
Join(s, sep) ==
    IF Len(s) = 0 THEN ""
    ELSE IF Len(s) = 1 THEN s[1]
    ELSE s[1] \o sep \o Join(Tail(s), sep)

\* the title filter, over the project names the model draws
TitleCase(s) ==
    CASE s = "resume-online" -> "Resume-Online"
      [] s = "dotfiles"      -> "Dotfiles"
      [] s = "myAPI tool"    -> "Myapi Tool"
      [] s = "k8s_lab"       -> "K8S_Lab"
      [] s = "AoC"           -> "Aoc"
      [] s = "zsh-theme"     -> "Zsh-Theme"
      [] OTHER               -> s

RECURSIVE Concat(_)
Concat(ss) == IF Len(ss) = 0 THEN <<>> ELSE ss[1] \o Concat(Tail(ss))

-----------------------------------------------------------------------------
(* TEMPLATE, lines 14-112, as generate_html renders it *)

Tok(tag, text) == [tag |-> tag, text |-> text]

\* lines 19, 38-41
RenderHeader(pi) ==
    << Tok("title", Str(pi, "name") \o " - CV"),
       Tok("h1", Str(pi, "name")),
       Tok("contact", Str(pi, "email") \o " | " \o Str(pi, "phone") \o " | "
                        \o Str(pi, "location")) >>

\* lines 43-46
RenderSummary(about) ==
    << Tok("section-title", "Professional Summary"),
       Tok("summary", Str(about, "summary")) >>

\* mutant: the list is rendered whole, without the [:6] slice
RenderResponsibilitiesMutNoSlice(position) ==
    LET rs == Lst(position, "responsibilities") IN
    IF Truthy(rs)
    THEN <<Tok("ul", "")>> \o [i \in 1..Len(rs) |-> Tok("li", rs[i])] \o <<Tok("/ul", "")>>
    ELSE <<>>

\* lines 56-62
RenderResponsibilities(position) ==
    LET rs == Lst(position, "responsibilities")
        shown == Slice(rs, MaxResponsibilities) IN
    IF Truthy(rs)
    THEN <<Tok("ul", "")>> \o [i \in 1..Len(shown) |-> Tok("li", shown[i])]
         \o <<Tok("/ul", "")>>
    ELSE <<>>

\* mutant: the Technologies line without its {% if %} guard
RenderStackMutNoGuard(position) ==
    LET ds == Lst(position, "daily_stack") IN
    <<Tok("skills", "Technologies: " \o Join(Slice(ds, MaxTechnologies), ", "))>>

\* lines 63-65
RenderStack(position) ==
    LET ds == Lst(position, "daily_stack") IN
    IF Truthy(ds)
    THEN <<Tok("skills", "Technologies: " \o Join(Slice(ds, MaxTechnologies), ", "))>>
    ELSE <<>>

\* lines 52-66
RenderPosition(company, position) ==
    << Tok("job-title", Str(position, "title")),
       Tok("company", Str(company, "company")),
       Tok("meta", Str(position, "duration") \o " | " \o Str(position, "location")
                     \o " | " \o Str(position, "type")) >>
    \o RenderResponsibilities(position)
    \o RenderStack(position)

\* lines 50-68
RenderCompany(company) ==
    LET ps == Lst(company, "positions") IN
    Concat([i \in 1..Len(ps) |-> RenderPosition(company, ps[i])])

\* lines 48-69
RenderCorporate(experience) ==
    LET cs == Lst(experience, "corporate") IN
    <<Tok("section-title", "Professional Experience")>>
    \o Concat([i \in 1..Len(cs) |-> RenderCompany(cs[i])])

\* lines 74-85
RenderItem(item) ==
    LET ks == Lst(item, "key_learnings") IN
    << Tok("job-title", Str(item, "title")),
       Tok("company", Str(item, "organization")),
       Tok("meta", Str(item, "duration") \o " | " \o Str(item, "type")) >>
    \o (IF Truthy(ks)
        THEN <<Tok("tags", "")>> \o [i \in 1..Len(ks) |-> Tok("learning-tag", ks[i])]
             \o <<Tok("/tags", "")>>
        ELSE <<>>)

\* lines 71-87
RenderOther(experience) ==
    LET os == Lst(experience, "other") IN
    <<Tok("section-title", "Education & Other Experience")>>
    \o Concat([i \in 1..Len(os) |-> RenderItem(os[i])])

\* lines 93-105
RenderProject(project) ==
    LET ts == Lst(project, "topics")
        shown == Slice(ts, MaxTopics) IN
    << Tok("job-title", TitleCase(Str(project, "name"))),
       Tok("company", Str(project, "language") \o " | * " \o Str(project, "stars")
                        \o " stars"),
       Tok("meta", Str(project, "url")),
       Tok("description", Str(project, "description")) >>
    \o (IF Truthy(ts)
        THEN <<Tok("tags", "")>> \o [i \in 1..Len(shown) |-> Tok("learning-tag", shown[i])]
             \o <<Tok("/tags", "")>>
        ELSE <<>>)

\* lines 89-108: {% if projects and projects|length > 0 %}
RenderProjects(d) ==
    LET ps == Lst(d, "projects")
        shown == Slice(ps, MaxProjects) IN
    IF Truthy(ps) /\ Len(ps) > 0
    THEN <<Tok("section-title", "Featured Projects")>>
         \o Concat([i \in 1..Len(shown) |-> RenderProject(shown[i])])
    ELSE <<>>

\* mutant: a strict Undefined, which also raises when a profile field is missing
RenderRaisesMutStrict(d) ==
    \/ ~ Has(d, "personal_info") \/ ~ Has(d, "about") \/ ~ Has(d, "experience")
    \/ ~ ({ "name", "email", "phone", "location" } \subseteq DOMAIN d["personal_info"])

\* Template(TEMPLATE).render(**data) raises UndefinedError when an attribute is
\* looked up on a name that is not a key of data: personal_info.name (line 19),
\* about.summary (line 45), experience.corporate (line 50)
RenderRaises(d) ==
    ~ Has(d, "personal_info") \/ ~ Has(d, "about") \/ ~ Has(d, "experience")

\* lines 120-122
generate_html(d) ==
    RenderHeader(d["personal_info"])
    \o RenderSummary(d["about"])
    \o RenderCorporate(d["experience"])
    \o RenderOther(d["experience"])
    \o RenderProjects(d)

-----------------------------------------------------------------------------
(* The record trees the model draws *)

Words == << "kafka", "ansible", "terraform", "bash", "python", "go", "docker",
            "aws", "rust", "grafana", "sql", "helm", "ci" >>

ProjNames == << "resume-online", "dotfiles", "myAPI tool", "k8s_lab", "AoC", "zsh-theme" >>

\* a list of n strings, not sorted, starting at offset off of Words
List(n, off) == [i \in 1..n |-> Words[((i + off - 1) % Len(Words)) + 1]]

FullProfile ==
    [name |-> "Jane Doe", email |-> "jane@example.com", phone |-> "+48 123",
     location |-> "Krakow", social |-> [github |-> "janedoe"]]

About == [summary |-> "Engineer."]

PositionBase(t) ==
    [title |-> t, duration |-> "2020 - 2024", location |-> "Remote", type |-> "Full-time"]

\* an optional key: Absent (no such key) or Some(v) (the key holds v)
Absent == [some |-> FALSE]
Some(v) == [some |-> TRUE, v |-> v]
WithKey(d, k, opt) == IF opt.some THEN (k :> opt.v) @@ d ELSE d

Position(t, rs, ds) ==
    WithKey(WithKey(PositionBase(t), "responsibilities", rs), "daily_stack", ds)

Item(ks) ==
    WithKey([title |-> "MSc", organization |-> "AGH", duration |-> "2015 - 2020",
              type |-> "Education"], "key_learnings", ks)

Project(i, ts) ==
    WithKey([name |-> ProjNames[((i - 1) % Len(ProjNames)) + 1], language |-> "Python",
              stars |-> "7", url |-> "https://github.com/janedoe/p",
              description |-> "A project."], "topics", ts)

LenR == 0..(MaxResponsibilities + Extra)
LenS == 0..(MaxTechnologies + Extra)
LenP == 0..(MaxProjects + Extra)
LenT == 0..(MaxTopics + Extra)

\* trees with long lists: two companies, three positions, nP projects whose
\* topic lists have different lengths
TruncTree(nR, nS, nP, nT) ==
    [personal_info |-> FullProfile,
     about |-> About,
     experience |->
        [corporate |->
            << [company |-> "Acme",
                positions |-> << Position("Lead", Some(List(nR, 0)), Some(List(nS, 3))),
                                 Position("Dev", Some(List(nS, 5)), Some(List(nR, 1))) >>],
               [company |-> "Initech",
                positions |-> << Position("Intern", Some(List(nT, 2)), Some(List(nP, 4))) >>] >>,
         other |-> << Item(Some(List(nT, 6))) >>],
     projects |-> [i \in 1..nP |-> Project(i, Some(List((nT + i - 1) % (MaxTopics + Extra + 1), i)))]]

TruncTrees ==
    { TruncTree(nR, nS, nP, nT) : nR \in LenR, nS \in LenS, nP \in LenP, nT \in LenT }

\* an optional list: the key is absent, the list is empty, or it has elements
Opt(full) == { Absent, Some(<<>>), Some(full) }

ProfileFields == { "name", "email", "phone", "location" }

\* the profile with the fields of `missing` removed
ProfileWithout(missing) ==
    [k \in (DOMAIN FullProfile) \ missing |-> FullProfile[k]]

PartialTree(missing, corp, oth, projs) ==
    WithKey(
        [personal_info |-> ProfileWithout(missing),
         about |-> About,
         experience |-> WithKey(WithKey(EmptyDict, "corporate", corp), "other", oth)],
        "projects", projs)

PartialTrees ==
    { PartialTree(missing, corp, oth, projs) :
        missing \in SUBSET ProfileFields,
        corp \in { Absent, Some(<<>>) } \cup
                 { Some(<< [company |-> "Acme", positions |-> << Position("Lead", rs, ds) >>] >>) :
                     rs \in Opt(List(2, 0)), ds \in Opt(List(2, 3)) },
        oth \in { Absent, Some(<<>>) } \cup { Some(<< Item(ks) >>) : ks \in Opt(List(2, 6)) },
        projs \in { Absent, Some(<<>>) } \cup
                  { Some(<< Project(1, ts), Project(2, Some(<<>>)) >>) : ts \in Opt(List(2, 1)) } }

\* trees without one of the maps the template dereferences
TopMissingTrees ==
    LET t == TruncTree(1, 1, 1, 1) IN
    { [k \in (DOMAIN t) \ {gone} |-> t[k]] : gone \in { "personal_info", "about", "experience" } }

RenderTrees == TruncTrees \cup PartialTrees \cup TopMissingTrees

-----------------------------------------------------------------------------
(* load_data and the input file *)

\* personal_info as the data file may hold it
MainProfiles ==
    LET base == ProfileWithout({"social"}) IN
    { Absent, Some(None), Some(base),
      Some(("social" :> None) @@ base),
      Some(("social" :> EmptyDict) @@ base),
      Some(("social" :> [github |-> ""]) @@ base),
      Some(FullProfile) }

MainTree(pi, projs, gone) ==
    LET t == WithKey(WithKey(
                [about |-> About,
                 experience |-> [corporate |->
                                    << [company |-> "Acme",
                                        positions |-> << Position("Lead", Some(List(2, 0)), Some(List(2, 3))) >>] >>,
                                 other |-> << Item(Some(List(1, 6))) >>]],
                "personal_info", pi), "projects", projs)
    IN [k \in (DOMAIN t) \ gone |-> t[k]]

ProjectList(n) == [i \in 1..n |-> Project(i, Some(List(i, i)))]

MainTrees ==
    { MainTree(pi, projs, gone) :
        pi \in MainProfiles,
        projs \in { Absent, Some(<<>>), Some(ProjectList(1)), Some(ProjectList(MaxProjects + Extra)) },
        gone \in { {}, {"about"}, {"experience"} } }

\* resume_data.yaml: missing, not parseable, or parseable to a tree (an empty
\* document parses to None)
InputFiles ==
    { [status |-> "missing"], [status |-> "invalid"] }
    \cup { [status |-> "ok", tree |-> t] : t \in MainTrees \cup {None} }

NotLoaded == [notloaded |-> TRUE]

\* lines 115-117: the exception open() or yaml.safe_load raises, "" if none
LoadError(f) ==
    CASE f.status = "missing" -> "FileNotFoundError"
      [] f.status = "invalid" -> "YAMLError"
      [] OTHER -> ""

-----------------------------------------------------------------------------
(* main, lines 130-148 *)

Get(d, k, default) == IF Has(d, k) THEN d[k] ELSE default

\* line 134 raises AttributeError when .get is called on None
DecideRaises(d) ==
    \/ IsNone(d)
    \/ IsNone(Get(d, "personal_info", EmptyDict))
    \/ IsNone(Get(Get(d, "personal_info", EmptyDict), "social", EmptyDict))

\* line 134: github_url; the None of an absent key is modelled as the falsy ""
GithubUrl(d) ==
    Str(Get(Get(d, "personal_info", EmptyDict), "social", EmptyDict), "github")

\* mutant: enrich whenever fewer projects than the template shows are present
NeedsEnrichmentMutThreshold(d) ==
    /\ GithubUrl(d) # ""
    /\ Len(Lst(d, "projects")) < MaxProjects

\* line 135
NeedsEnrichment(d) ==
    /\ GithubUrl(d) # ""
    /\ (~ Truthy(Lst(d, "projects")) \/ Len(Lst(d, "projects")) = 0)

\* line 137
GithubToken == Get(environ, "GITHUB_TOKEN", None)

\* fetch_github_projects (generate_resume, not in this file): a bounded
\* sequence of Project records, empty when nothing was found or the request failed
EnricherResults == { <<>>, ProjectList(2), ProjectList(MaxProjects + Extra) }

\* mutant: only the projects the template shows are attached
AttachMutTruncate(d, projects) == ("projects" :> Slice(projects, MaxProjects)) @@ d

\* line 139
Attach(d, projects) == ("projects" :> projects) @@ d

Step(name) == trace' = Append(trace, name)

\* mutant: a failed load is swallowed and the run goes on with an empty tree
LoadMutSwallow ==
    /\ entry = "main" /\ pc = "load"
    /\ Step("load")
    /\ data' = IF LoadError(input_file) # "" THEN EmptyDict ELSE input_file.tree
    /\ loaded' = data'
    /\ pc' = "decide"
    /\ UNCHANGED <<entry, input_file, environ, calls, html, out_path, dirs, file,
                   file0, err, reported>>

\* line 131
Load ==
    /\ entry = "main" /\ pc = "load"
    /\ Step("load")
    /\ IF LoadError(input_file) # ""
       THEN /\ err' = LoadError(input_file)
            /\ pc' = "raised"
            /\ UNCHANGED <<data, loaded>>
       ELSE /\ data' = input_file.tree
            /\ loaded' = input_file.tree
            /\ pc' = "decide"
            /\ err' = err
    /\ UNCHANGED <<entry, input_file, environ, calls, html, out_path, dirs, file,
                   file0, reported>>

\* lines 134-135
Decide ==
    /\ entry = "main" /\ pc = "decide"
    /\ Step("decide")
    /\ IF DecideRaises(data)
       THEN err' = "AttributeError" /\ pc' = "raised"
       ELSE err' = err /\ pc' = IF NeedsEnrichment(data) THEN "enrich" ELSE "render"
    /\ UNCHANGED <<entry, input_file, environ, data, loaded, calls, html, out_path,
                   dirs, file, file0, reported>>

\* mutant: an empty result is retried
EnrichMutRetry ==
    /\ entry = "main" /\ pc = "enrich"
    /\ Step("enrich")
    /\ \E projects \in EnricherResults :
          /\ calls' = Append(calls, [url |-> GithubUrl(data), token |-> GithubToken,
                                     result |-> projects])
          /\ data' = Attach(data, projects)
          /\ pc' = IF Len(projects) = 0 THEN "enrich" ELSE "render"
    /\ UNCHANGED <<entry, input_file, environ, loaded, html, out_path, dirs, file,
                   file0, err, reported>>

\* mutant: an empty result is raised to the caller
EnrichMutEscalate ==
    /\ entry = "main" /\ pc = "enrich"
    /\ Step("enrich")
    /\ \E projects \in EnricherResults :
          /\ calls' = Append(calls, [url |-> GithubUrl(data), token |-> GithubToken,
                                     result |-> projects])
          /\ data' = Attach(data, projects)
          /\ pc' = IF Len(projects) = 0 THEN "raised" ELSE "render"
          /\ err' = IF Len(projects) = 0 THEN "EnrichmentFailure" ELSE err
    /\ UNCHANGED <<entry, input_file, environ, loaded, html, out_path, dirs, file,
                   file0, reported>>

\* lines 136-144
Enrich ==
    /\ entry = "main" /\ pc = "enrich"
    /\ Step("enrich")
    /\ \E projects \in EnricherResults :
          /\ calls' = Append(calls, [url |-> GithubUrl(data), token |-> GithubToken,
                                     result |-> projects])
          /\ data' = Attach(data, projects)
    /\ pc' = "render"
    /\ UNCHANGED <<entry, input_file, environ, loaded, html, out_path, dirs, file,
                   file0, err, reported>>

\* line 146, and generate_html called on its own
Render ==
    /\ pc = "render"
    /\ Step("render")
    /\ IF RenderRaises(data)
       THEN err' = "UndefinedError" /\ pc' = "raised" /\ html' = html
       ELSE /\ html' = generate_html(data)
            /\ err' = err
            /\ pc' = IF entry = "main" THEN "makedirs" ELSE "returned"
    /\ UNCHANGED <<entry, input_file, environ, data, loaded, calls, out_path, dirs,
                   file, file0, reported>>

-----------------------------------------------------------------------------
(* write_pdf, lines 125-127 *)

\* os.path.dirname of a relative path given by its components
dirname(p) == SubSeq(p, 1, Len(p) - 1)

\* the directories os.makedirs(d) leaves existing
Prefixes(d) == { SubSeq(d, 1, i) : i \in 1..Len(d) }

\* line 126: os.makedirs(os.path.dirname(out_path), exist_ok=True).
\* os.makedirs('') raises FileNotFoundError; an existing directory is no error;
\* creating one can fail in the file system (OSError).
MakeDirs ==
    /\ pc = "makedirs"
    /\ Step("write")
    /\ LET d == dirname(out_path) IN
       \E fs_ok \in BOOLEAN :
          IF d = <<>>
          THEN err' = "FileNotFoundError" /\ pc' = "raised" /\ dirs' = dirs
          ELSE IF d \in dirs \/ fs_ok
          THEN err' = err /\ pc' = "convert" /\ dirs' = dirs \cup Prefixes(d)
          ELSE err' = "OSError" /\ pc' = "raised" /\ dirs' = dirs
    /\ UNCHANGED <<entry, input_file, environ, data, loaded, calls, html, out_path,
                   file, file0, reported>>

\* line 127, first part: HTML(string=html_str) is laid out and serialised in
\* memory; a failure here happens before the target is touched
Convert ==
    /\ pc = "convert"
    /\ \E ok \in BOOLEAN :
          IF ok THEN err' = err /\ pc' = "open"
          ELSE err' = "ConversionError" /\ pc' = "raised"
    /\ UNCHANGED <<entry, input_file, environ, data, loaded, calls, html, out_path,
                   dirs, file, file0, trace, reported>>

\* line 127, second part: the target path is opened for writing, which creates
\* it or truncates what is there
OpenTarget ==
    /\ pc = "open"
    /\ \E ok \in BOOLEAN :
          IF ok THEN err' = err /\ pc' = "write" /\ file' = "empty"
          ELSE err' = "OSError" /\ pc' = "raised" /\ file' = file
    /\ UNCHANGED <<entry, input_file, environ, data, loaded, calls, html, out_path,
                   dirs, file0, trace, reported>>

\* line 127, third part: the document's bytes are written to the open file; an
\* I/O error (disk full, ...) leaves what was written so far
WriteBytes ==
    /\ pc = "write"
    /\ \E outcome \in { "new", "partial", "empty" } :
          /\ file' = outcome
          /\ IF outcome = "new"
             THEN err' = err /\ pc' = IF entry = "main" THEN "report" ELSE "returned"
             ELSE err' = "OSError" /\ pc' = "raised"
    /\ UNCHANGED <<entry, input_file, environ, data, loaded, calls, html, out_path,
                   dirs, file0, trace, reported>>

\* line 148
Report ==
    /\ entry = "main" /\ pc = "report"
    /\ Step("report")
    /\ reported' = TRUE
    /\ pc' = "returned"
    /\ UNCHANGED <<entry, input_file, environ, data, loaded, calls, html, out_path,
                   dirs, file, file0, err>>

-----------------------------------------------------------------------------
(* Specifications *)

DefaultOutPath == << "html", "cv.pdf" >>

\* the file system before a call that writes to path p: a document can only be
\* at p already if p's directory exists
FileSystems(p) ==
    { [dirs |-> ds, file |-> f] :
        ds \in { Prefixes(SubSeq(dirname(p), 1, i)) : i \in 0..Len(dirname(p)) },
        f \in { "absent", "old" } }
    \ { [dirs |-> ds, file |-> "old"] :
        ds \in { x \in SUBSET Prefixes(dirname(p)) : dirname(p) # <<>> /\ dirname(p) \notin x } }

Environs == { EmptyDict, [GITHUB_TOKEN |-> "ghp_token"] }

\* one run of main()
Init ==
    /\ entry = "main" /\ pc = "load"
    /\ input_file \in InputFiles
    /\ environ \in Environs
    /\ data = NotLoaded /\ loaded = NotLoaded
    /\ calls = <<>> /\ html = <<>>
    /\ out_path = DefaultOutPath
    /\ \E fs \in FileSystems(DefaultOutPath) :
          dirs = fs.dirs /\ file = fs.file /\ file0 = fs.file
    /\ err = "" /\ trace = <<>> /\ reported = FALSE

Next ==
    \/ Load \/ Decide \/ Enrich \/ Render
    \/ MakeDirs \/ Convert \/ OpenTarget \/ WriteBytes
    \/ Report

Spec == Init /\ [][Next]_vars

\* one call of generate_html(data)
InitRender ==
    /\ entry = "generate_html" /\ pc = "render"
    /\ input_file = [status |-> "missing"]
    /\ environ = EmptyDict
    /\ data \in RenderTrees /\ loaded = data
    /\ calls = <<>> /\ html = <<>>
    /\ out_path = DefaultOutPath
    /\ dirs = {} /\ file = "absent" /\ file0 = "absent"
    /\ err = "" /\ trace = <<>> /\ reported = FALSE

NextRender == Render

SpecRender == InitRender /\ [][NextRender]_vars

OutPaths == { DefaultOutPath, << "out", "2024", "cv.pdf" >>, << "cv.pdf" >> }

\* one call of write_pdf(html_str, out_path)
InitWrite ==
    /\ entry = "write_pdf" /\ pc = "makedirs"
    /\ input_file = [status |-> "missing"]
    /\ environ = EmptyDict
    /\ data = NotLoaded /\ loaded = NotLoaded
    /\ calls = <<>>
    /\ html \in { generate_html(t) : t \in { TruncTree(n, n, n, n) : n \in 0..(1 + Extra) } }
    /\ out_path \in OutPaths
    /\ \E fs \in FileSystems(out_path) :
          dirs = fs.dirs /\ file = fs.file /\ file0 = fs.file
    /\ err = "" /\ trace = <<>> /\ reported = FALSE

NextWrite == MakeDirs \/ Convert \/ OpenTarget \/ WriteBytes

SpecWrite == InitWrite /\ [][NextWrite]_vars

-----------------------------------------------------------------------------
(* Reading the markup back *)

SetMin(S) == CHOOSE x \in S : \A y \in S : x <= y

\* the tokens that follow the section title `title`, up to the next section title
SectionOf(h, title) ==
    LET at == { i \in 1..Len(h) : h[i].tag = "section-title" /\ h[i].text = title } IN
    IF at = {} THEN <<>>
    ELSE LET i == SetMin(at)
             later == { j \in (i + 1)..Len(h) : h[j].tag = "section-title" }
             e == IF later = {} THEN Len(h) ELSE SetMin(later) - 1
         IN SubSeq(h, i + 1, e)

HasSection(h, title) ==
    \E i \in 1..Len(h) : h[i].tag = "section-title" /\ h[i].text = title

JobStarts(sec) == { i \in 1..Len(sec) : sec[i].tag = "job-title" }

NumJobs(sec) == Cardinality(JobStarts(sec))

\* the tokens of the k-th job block of a section
Job(sec, k) ==
    LET st == JobStarts(sec)
        s == CHOOSE i \in st : Cardinality({ j \in st : j <= i }) = k
        later == { j \in st : j > s }
        e == IF later = {} THEN Len(sec) ELSE SetMin(later) - 1
    IN SubSeq(sec, s, e)

\* the texts of the tokens with the given tag, in order
TextsOf(toks, tag) ==
    LET sel == SelectSeq(toks, LAMBDA t : t.tag = tag) IN
    [i \in 1..Len(sel) |-> sel[i].text]

HasTag(toks, tag) == \E i \in 1..Len(toks) : toks[i].tag = tag

\* the first min(n, Len(s)) elements of s
First(s, n) == [i \in 1..(IF Len(s) < n THEN Len(s) ELSE n) |-> s[i]]

ListAt(d, k) == IF k \in DOMAIN d THEN d[k] ELSE <<>>

\* every position of the tree, company by company
AllPositions(d) ==
    LET cs == ListAt(d["experience"], "corporate") IN
    Concat([i \in 1..Len(cs) |-> ListAt(cs[i], "positions")])

Rendered == entry = "generate_html" /\ pc = "returned"

-----------------------------------------------------------------------------
(* Claims about generate_html, checked under SpecRender *)

\* C5: each position renders exactly its first min(6, n) responsibilities and
\* its first min(10, n) technologies, the Projects section exactly the first
\* min(4, n) projects, and each rendered project exactly its first min(5, n)
\* topics, all in input order.
C5_TruncationLaws ==
    Rendered =>
        LET exp == SectionOf(html, "Professional Experience")
            ps == AllPositions(data)
            prj == SectionOf(html, "Featured Projects")
            pl == ListAt(data, "projects")
        IN /\ NumJobs(exp) = Len(ps)
           /\ \A k \in 1..Len(ps) :
                 LET st == First(ListAt(ps[k], "daily_stack"), 10) IN
                 /\ TextsOf(Job(exp, k), "li") = First(ListAt(ps[k], "responsibilities"), 6)
                 /\ TextsOf(Job(exp, k), "skills") =
                       IF Len(st) = 0 THEN <<>> ELSE << "Technologies: " \o Join(st, ", ") >>
           /\ NumJobs(prj) = (IF Len(pl) < 4 THEN Len(pl) ELSE 4)
           /\ \A k \in 1..NumJobs(prj) :
                 /\ Job(prj, k)[1].text = TitleCase(pl[k]["name"])
                 /\ TextsOf(Job(prj, k), "learning-tag") = First(ListAt(pl[k], "topics"), 5)

\* a tree whose first position has more than 6 responsibilities and more than
\* 10 technologies, with more than 4 projects, the first with more than 5
\* topics, has been rendered, and the first job block lists 6 items
C5_Witness ==
    /\ Rendered
    /\ Len(AllPositions(data)) > 0
    /\ Len(ListAt(AllPositions(data)[1], "responsibilities")) > 6
    /\ Len(ListAt(AllPositions(data)[1], "daily_stack")) > 10
    /\ Len(ListAt(data, "projects")) > 4
    /\ Len(ListAt(data["projects"][1], "topics")) > 5
    /\ Len(TextsOf(Job(SectionOf(html, "Professional Experience"), 1), "li")) = 6
    /\ NumJobs(SectionOf(html, "Featured Projects")) = 4

\* the tree has the three maps the template dereferences
ValidTree(d) == { "personal_info", "about", "experience" } \subseteq DOMAIN d

RenderEnded == entry = "generate_html" /\ pc # "render"

\* the optional fragments appear exactly when the list that feeds them is
\* non-empty, and every position, item and rendered project has its job block
FragmentsIffNonEmpty ==
    LET exp == SectionOf(html, "Professional Experience")
        oth == SectionOf(html, "Education & Other Experience")
        prj == SectionOf(html, "Featured Projects")
        ps == AllPositions(data)
        items == ListAt(data["experience"], "other")
        pl == ListAt(data, "projects")
    IN /\ HasSection(html, "Featured Projects") <=> Len(pl) > 0
       /\ NumJobs(exp) = Len(ps)
       /\ NumJobs(oth) = Len(items)
       /\ \A k \in 1..Len(ps) :
             /\ HasTag(Job(exp, k), "ul") <=> Len(ListAt(ps[k], "responsibilities")) > 0
             /\ HasTag(Job(exp, k), "li") <=> Len(ListAt(ps[k], "responsibilities")) > 0
             /\ HasTag(Job(exp, k), "skills") <=> Len(ListAt(ps[k], "daily_stack")) > 0
       /\ \A k \in 1..Len(items) :
             HasTag(Job(oth, k), "tags") <=> Len(ListAt(items[k], "key_learnings")) > 0
       /\ \A k \in 1..NumJobs(prj) :
             HasTag(Job(prj, k), "tags") <=> Len(ListAt(pl[k], "topics")) > 0

\* C6 as stated: for every valid tree rendering completes without error, and
\* each section or fragment, the Professional Experience and Education & Other
\* Experience sections included, is in the markup iff its list is non-empty.
C6_Original_AllSectionsIffNonEmpty ==
    (RenderEnded /\ ValidTree(data)) =>
        /\ pc = "returned" /\ err = ""
        /\ HasSection(html, "Professional Experience")
              <=> Len(ListAt(data["experience"], "corporate")) > 0
        /\ HasSection(html, "Education & Other Experience")
              <=> Len(ListAt(data["experience"], "other")) > 0
        /\ FragmentsIffNonEmpty

\* C6 amended: for every valid tree rendering completes without error; the
\* Featured Projects section, a position's responsibilities list, its
\* Technologies line and an item's or project's tag cloud are in the markup iff
\* their list is non-empty; the Professional Experience and Education & Other
\* Experience section titles are always in the markup, followed by one job
\* block per position and per item (none for an empty or absent list).
C6_OptionalFragmentsIffNonEmpty ==
    (RenderEnded /\ ValidTree(data)) =>
        /\ pc = "returned" /\ err = ""
        /\ HasSection(html, "Professional Experience")
        /\ HasSection(html, "Education & Other Experience")
        /\ FragmentsIffNonEmpty

\* a tree with no corporate experience, no other experience and no projects
\* has been rendered: both experience titles are there, with no job block,
\* and the projects section is not
C6_Witness ==
    /\ Rendered
    /\ Len(ListAt(data["experience"], "corporate")) = 0
    /\ Len(ListAt(data["experience"], "other")) = 0
    /\ Len(ListAt(data, "projects")) = 0
    /\ HasSection(html, "Professional Experience")
    /\ HasSection(html, "Education & Other Experience")
    /\ ~ HasSection(html, "Featured Projects")
    /\ ~ HasTag(html, "job-title")

\* C7: generate_html does not raise for a tree whose optional fields
\* (responsibilities, daily_stack, key_learnings, topics, projects) are absent
\* or empty, and a missing name, email, phone or location is rendered as the
\* empty string.
C7_TotalOverPartialData ==
    (RenderEnded /\ ValidTree(data)) =>
        LET pi == data["personal_info"]
            F(k) == IF k \in DOMAIN pi THEN pi[k] ELSE ""
        IN /\ pc = "returned" /\ err = ""
           /\ html[1] = [tag |-> "title", text |-> F("name") \o " - CV"]
           /\ html[2] = [tag |-> "h1", text |-> F("name")]
           /\ html[3] = [tag |-> "contact",
                         text |-> F("email") \o " | " \o F("phone") \o " | " \o F("location")]

\* a tree with none of the four profile fields, no projects key and a position
\* without responsibilities and daily_stack has been rendered
C7_Witness ==
    /\ Rendered
    /\ DOMAIN data["personal_info"] \cap { "name", "email", "phone", "location" } = {}
    /\ "projects" \notin DOMAIN data
    /\ Len(AllPositions(data)) > 0
    /\ DOMAIN AllPositions(data)[1] \cap { "responsibilities", "daily_stack" } = {}
    /\ html[2] = [tag |-> "h1", text |-> ""]
    /\ html[3] = [tag |-> "contact", text |-> " |  | "]

-----------------------------------------------------------------------------
(* Claims about main(), checked under Spec *)

LoadSucceeded == "notloaded" \notin DOMAIN loaded

\* a non-empty identifier is stored under personal_info.social.github
IdentifierPresent(t) ==
    /\ "personal_info" \in DOMAIN t
    /\ "social" \in DOMAIN t["personal_info"]
    /\ "github" \in DOMAIN t["personal_info"]["social"]
    /\ t["personal_info"]["social"]["github"] # ""

ProjectsAbsentOrEmpty(t) ==
    "projects" \notin DOMAIN t \/ Len(t["projects"]) = 0

Rank(step) ==
    CASE step = "load" -> 1
      [] step = "decide" -> 2
      [] step = "enrich" -> 3
      [] step = "render" -> 4
      [] step = "write" -> 5
      [] step = "report" -> 6

Started(step) == \E i \in 1..Len(trace) : trace[i] = step

\* C1: in a run of main() whose load succeeded, fetch_github_projects is called
\* exactly once if the loaded tree has an identifier under
\* personal_info.social.github and its projects list is absent or empty, and
\* not at all otherwise (any non-empty projects list disables it).
C1_EnrichmentTrigger ==
    (entry = "main" /\ LoadSucceeded) =>
        /\ Len(calls) <= 1
        /\ pc = "enrich" =>
              (calls = <<>> /\ IdentifierPresent(loaded) /\ ProjectsAbsentOrEmpty(loaded))
        /\ pc \notin { "load", "decide", "enrich" } =>
              Len(calls) = IF IdentifierPresent(loaded) /\ ProjectsAbsentOrEmpty(loaded)
                           THEN 1 ELSE 0

\* a run has ended in which the tree had an identifier and a single project,
\* and the enricher was not called
C1_Witness ==
    /\ entry = "main" /\ pc = "returned" /\ reported
    /\ IdentifierPresent(loaded)
    /\ "projects" \in DOMAIN loaded /\ Len(loaded["projects"]) = 1
    /\ calls = <<>>

\* C2: the steps of a run start in the order load, decide, enrich (optional),
\* render, write, report, each at most once and none after a later one;
\* render starts only after load and the enrichment decision, write only after
\* render has produced the markup, report only after the write.
C2_LinearOrder ==
    entry = "main" =>
        /\ \A i, j \in 1..Len(trace) : i < j => Rank(trace[i]) < Rank(trace[j])
        /\ Started("decide") => Started("load") /\ LoadSucceeded
        /\ Started("enrich") => Started("decide")
        /\ Started("render") => (Started("decide") /\ pc # "enrich")
        /\ Started("write") => (Started("render") /\ Len(html) > 0)
        /\ Started("report") => (Started("write") /\ file = "new")

\* a run with enrichment has gone through all six steps
C2_Witness ==
    /\ entry = "main" /\ pc = "returned"
    /\ trace = << "load", "decide", "enrich", "render", "write", "report" >>

\* C3: when load_data fails the run ends there with that error: no enricher
\* call, no markup, no write, the output path untouched, no success message.
\* When write_pdf fails the run ends with an error and no success message.
\* The success message is printed only after write_pdf completed.
C3_HardFailureAborts ==
    entry = "main" =>
        /\ (input_file.status \in { "missing", "invalid" } /\ pc # "load") =>
              /\ pc = "raised" /\ err \in { "FileNotFoundError", "YAMLError" }
              /\ trace = << "load" >>
              /\ calls = <<>> /\ html = <<>>
              /\ file = file0
              /\ ~ reported
        /\ pc = "raised" => (err # "" /\ ~ reported)
        /\ reported => (Started("write") /\ file = "new" /\ err = "")
        /\ (pc \in { "returned", "raised" } /\ file # "new") => ~ reported

\* load_data has failed on an unparseable file and the run has ended
C3_Witness ==
    /\ entry = "main" /\ pc = "raised"
    /\ input_file.status = "invalid" /\ err = "YAMLError"
    /\ trace = << "load" >>

\* C4: once the enricher has been called, whatever it returned (the empty
\* sequence included), projects is set to what it returned, the run goes on to
\* render, and after a successful render to write; an error that ends the run
\* comes from render or write, never from the enrichment step.
C4_EnrichmentNeverFailsRun ==
    (entry = "main" /\ Started("enrich")) =>
        /\ Len(calls) = 1
        /\ "projects" \in DOMAIN data /\ data["projects"] = calls[1].result
        /\ pc = "render" \/ Started("render")
        /\ pc = "raised" => err \in { "UndefinedError", "OSError", "ConversionError" }
        /\ (Started("render") /\ err # "UndefinedError") => (pc = "makedirs" \/ Started("write"))

\* the enricher returned nothing and the run has ended with the document written
C4_Witness ==
    /\ entry = "main" /\ pc = "returned" /\ reported
    /\ Len(calls) = 1 /\ calls[1].result = <<>>
    /\ data["projects"] = <<>>
    /\ file = "new"

\* C10: without enrichment the tree is the loaded tree at every later step;
\* with enrichment it differs from the loaded tree only in the key projects,
\* which holds exactly what the enricher returned.
C10_TreeFrame ==
    (entry = "main" /\ LoadSucceeded) =>
        /\ calls = <<>> => data = loaded
        /\ calls # <<>> =>
              /\ DOMAIN data = DOMAIN loaded \cup { "projects" }
              /\ \A k \in DOMAIN loaded \ { "projects" } : data[k] = loaded[k]
              /\ data["projects"] = calls[Len(calls)].result

\* a run has ended in which the loaded tree had an empty projects list and the
\* rendered tree holds the enricher's projects, more than the template shows
C10_Witness ==
    /\ entry = "main" /\ pc = "returned"
    /\ "projects" \in DOMAIN loaded /\ Len(loaded["projects"]) = 0
    /\ Len(calls) = 1
    /\ Len(data["projects"]) > 4

-----------------------------------------------------------------------------
(* Claims about write_pdf, checked under SpecWrite *)

WriteEnded == entry = "write_pdf" /\ pc \in { "returned", "raised" }

\* C8: a call of write_pdf either succeeds with the complete document at the
\* path, or fails with the path holding what it held before the call.
C8_AllOrNothing ==
    WriteEnded =>
        /\ pc = "returned" => file = "new"
        /\ pc = "raised" => file = file0

\* C9: for every output path, a call of write_pdf that meets no failure of the
\* file system or of the conversion ends with the parent directory existing
\* and the document at the path.
C9_WriteEndsWithDocument ==
    (WriteEnded /\ err \notin { "OSError", "ConversionError" }) =>
        /\ pc = "returned" /\ err = ""
        /\ (dirname(out_path) # <<>> => dirname(out_path) \in dirs)
        /\ file = "new"

====
